---- MODULE Spec2Model ----
(***************************************************************************)
(* Model of src/utils/treeUtils.ts (RaktaVruksha): buildGraphData and the  *)
(* generation solver calculateGenerations it calls.                        *)
(*                                                                         *)
(* One behaviour is one call buildGraphData(allPeople, primePersonId):     *)
(*   "relax"     the while loop of calculateGenerations, one full pass     *)
(*               over allPeople per step                                   *)
(*   "normalize" the final normalization of calculateGenerations           *)
(*   "nodes"     the first allPeople.forEach of buildGraphData             *)
(*   "links"     the second allPeople.forEach, one person per step         *)
(*   "done"      the function has returned {nodes, links}                  *)
(***************************************************************************)
EXTENDS Integers, Sequences, FiniteSets, TLC

\* ------------------------------------------------------------------------
\* Bounds of the model: the largest number of relation entries (ids in
\* parents, spouses and children lists, all people together) of the inputs
\* ------------------------------------------------------------------------
\* any relations, any ids
GeneralRelations == 2
\* spouses entries of an input with several marriages
Marriages == 4
\* parents entries of an input with two-parent families
FamilyParents == 4
\* parents entries, and children entries, of an input with parents of
\* different generations
MixedRelations == 2

\* ------------------------------------------------------------------------
\* Strings.  An id is a JavaScript string, modelled as a sequence of
\* one-character strings; CharCode gives the UTF-16 code unit that the
\* default Array.prototype.sort and the < operator compare by.
\* ------------------------------------------------------------------------
CharCode ==
  [ch \in {"-", "a", "b", "c", "e", "g", "i", "m", "r"} |->
     CASE ch = "-" -> 45  [] ch = "a" -> 97  [] ch = "b" -> 98
       [] ch = "c" -> 99  [] ch = "e" -> 101 [] ch = "g" -> 103
       [] ch = "i" -> 105 [] ch = "m" -> 109 [] ch = "r" -> 114]

RECURSIVE StrLessFrom(_, _, _)
StrLessFrom(s, t, i) ==
  IF i > Len(t) THEN FALSE
  ELSE IF i > Len(s) THEN TRUE
  ELSE IF CharCode[s[i]] < CharCode[t[i]] THEN TRUE
  ELSE IF CharCode[s[i]] > CharCode[t[i]] THEN FALSE
  ELSE StrLessFrom(s, t, i + 1)

\* s < t on strings (lexicographic by code unit)
StrLess(s, t) == StrLessFrom(s, t, 1)

\* the ids that occur in the inputs, in ascending string order:
\* "a" < "a-b" < "b-c" < "c"
IdA   == <<"a">>
IdAB  == <<"a", "-", "b">>
IdBC  == <<"b", "-", "c">>
IdC   == <<"c">>
IdList == <<IdA, IdAB, IdBC, IdC>>
Ids == {IdList[i] : i \in 1..Len(IdList)}

\* primePersonId = null
Null == <<>>

\* ------------------------------------------------------------------------
\* calculateGenerations
\* ------------------------------------------------------------------------
MAX_ITERATIONS == 200

\* JavaScript values of type number | undefined: a number n, the "unknown"
\* generation NaN, and undefined (the result of Map.get on a missing key)
Num(n) == [kind |-> "number", v |-> n]
NaN == [kind |-> "NaN", v |-> 0]
Undefined == [kind |-> "undefined", v |-> 0]

\* isNaN(x): true of NaN and of undefined
IsNaN(x) == x.kind # "number"

\* map.get(key)
MapGet(map, key) == IF key \in DOMAIN map THEN map[key] ELSE Undefined

\* map.has(key)
MapHas(map, key) == key \in DOMAIN map

\* map.set(key, value)
MapSet(map, key, value) ==
  [k \in (DOMAIN map) \cup {key} |-> IF k = key THEN value ELSE map[k]]

\* MathRound with a tie going away from zero
MathRound_AwayFromZero(sum, count) ==
  IF sum >= 0 THEN (2 * sum + count) \div (2 * count)
  ELSE 0 - ((2 * (0 - sum) + count) \div (2 * count))

\* Math.round(sum / count) for an integer sum and count > 0: the nearest
\* integer, a tie going to the larger one (floor(x + 0.5))
MathRound(sum, count) == (2 * sum + count) \div (2 * count)

\* the ids of the people, and peopleMap.has
PeopleIds(people) == {people[i].id : i \in 1..Len(people)}

\* allPeople.forEach(p => generationMap.set(p.id, NaN))
InitialGenerations(people) == [id \in PeopleIds(people) |-> NaN]

\* primePersonId && peopleMap.has(primePersonId)
PrimeKnown(people, prime) == prime # Null /\ prime \in PeopleIds(people)

\* DefaultPrime without the search for a root: always the first person
DefaultPrime_First(people) == people[1]

\* allPeople.find(no parents and some children) || allPeople[0]
DefaultPrime(people) ==
  LET roots == {i \in 1..Len(people) :
                  Len(people[i].parents) = 0 /\ Len(people[i].children) > 0}
  IN  IF roots # {}
        THEN people[CHOOSE i \in roots : \A j \in roots : i <= j]
        ELSE people[1]

\* the generation map once the anchor is seeded with 0 (people non-empty)
SeedGenerations(people, prime) ==
  IF PrimeKnown(people, prime)
    THEN MapSet(InitialGenerations(people), prime, Num(0))
    ELSE MapSet(InitialGenerations(people), DefaultPrime(people).id, Num(0))

\* a relaxation state: the map, currentGen of the person being processed,
\* and the changed flag
RelaxState(gen, cur, changed) == [gen |-> gen, cur |-> cur, changed |-> changed]

\* Rule 1, the body of person.spouses.forEach for one spouseId
SpouseStep(st, people, person, spouseId) ==
  IF spouseId \in PeopleIds(people)
    THEN LET spouseGen == MapGet(st.gen, spouseId)
         IN  IF ~IsNaN(spouseGen) /\ (IsNaN(st.cur) \/ st.cur # spouseGen)
               THEN RelaxState(MapSet(st.gen, person.id, spouseGen), spouseGen, TRUE)
               ELSE st
    ELSE st

RECURSIVE SpouseRule(_, _, _, _)
SpouseRule(st, people, person, i) ==
  IF i > Len(person.spouses) THEN st
  ELSE SpouseRule(SpouseStep(st, people, person, person.spouses[i]),
                  people, person, i + 1)

\* Rule 2: parentGenSum and knownParentsCount over person.parents
RECURSIVE ParentGenSum(_, _, _)
ParentGenSum(gen, parents, i) ==
  IF i > Len(parents) THEN 0
  ELSE LET parentGen == MapGet(gen, parents[i])
       IN  (IF IsNaN(parentGen) THEN 0 ELSE parentGen.v)
             + ParentGenSum(gen, parents, i + 1)

RECURSIVE KnownParentsCount(_, _, _)
KnownParentsCount(gen, parents, i) ==
  IF i > Len(parents) THEN 0
  ELSE (IF IsNaN(MapGet(gen, parents[i])) THEN 0 ELSE 1)
         + KnownParentsCount(gen, parents, i + 1)

ImpliedChildGen(gen, parents) ==
  MathRound(ParentGenSum(gen, parents, 1), KnownParentsCount(gen, parents, 1)) + 1

ParentRule(st, person) ==
  IF Len(person.parents) > 0 /\ KnownParentsCount(st.gen, person.parents, 1) > 0
    THEN LET impliedChildGen == ImpliedChildGen(st.gen, person.parents)
         IN  IF IsNaN(st.cur) \/ impliedChildGen < st.cur.v
               THEN RelaxState(MapSet(st.gen, person.id, Num(impliedChildGen)),
                               Num(impliedChildGen), TRUE)
               ELSE st
    ELSE st

\* ChildStep that does not count its update as a change
ChildStep_Unflagged(st, person, childId) ==
  LET childGen == MapGet(st.gen, childId)
      impliedParentGen == childGen.v - 1
  IN  IF ~IsNaN(childGen) /\ (IsNaN(st.cur) \/ impliedParentGen > st.cur.v)
        THEN RelaxState(MapSet(st.gen, person.id, Num(impliedParentGen)),
                        Num(impliedParentGen), st.changed)
        ELSE st

\* Rule 3, the body of person.children.forEach for one childId
ChildStep(st, person, childId) ==
  LET childGen == MapGet(st.gen, childId)
      impliedParentGen == childGen.v - 1
  IN  IF ~IsNaN(childGen) /\ (IsNaN(st.cur) \/ impliedParentGen > st.cur.v)
        THEN RelaxState(MapSet(st.gen, person.id, Num(impliedParentGen)),
                        Num(impliedParentGen), TRUE)
        ELSE st

RECURSIVE ChildRule(_, _, _)
ChildRule(st, person, i) ==
  IF i > Len(person.children) THEN st
  ELSE ChildRule(ChildStep(st, person, person.children[i]), person, i + 1)

\* the body of [...allPeople].forEach for one person
PersonStep(gen, changed, people, person) ==
  LET s0 == RelaxState(gen, MapGet(gen, person.id), changed)
      s1 == SpouseRule(s0, people, person, 1)
      s2 == ParentRule(s1, person)
      s3 == ChildRule(s2, person, 1)
  IN  s3

\* one full pass of the while loop body over people[i..]
RECURSIVE RelaxFrom(_, _, _, _)
RelaxFrom(gen, changed, people, i) ==
  IF i > Len(people) THEN [gen |-> gen, changed |-> changed]
  ELSE LET s == PersonStep(gen, changed, people, people[i])
       IN  RelaxFrom(s.gen, s.changed, people, i + 1)

RelaxPass(gen, people) == RelaxFrom(gen, FALSE, people, 1)

\* the while loop, run from a given state up to pass number limit: passes
\* until one changes nothing or the limit is reached
RECURSIVE RelaxUpTo(_, _, _, _, _)
RelaxUpTo(gen, changed, iteration, people, limit) ==
  IF changed /\ iteration < limit
    THEN LET r == RelaxPass(gen, people)
         IN  RelaxUpTo(r.gen, r.changed, iteration + 1, people, limit)
    ELSE [gen |-> gen, changed |-> changed, iteration |-> iteration]

\* the while loop up to MAX_ITERATIONS.  The passes are evaluated in runs of
\* at most 20 so that the depth of the evaluation stays small; the sequence
\* of passes is that of the loop.
RECURSIVE RelaxLoop(_, _, _, _)
RelaxLoop(gen, changed, iteration, people) ==
  IF changed /\ iteration < MAX_ITERATIONS
    THEN LET limit == IF iteration + 20 < MAX_ITERATIONS
                        THEN iteration + 20 ELSE MAX_ITERATIONS
             s == RelaxUpTo(gen, changed, iteration, people, limit)
         IN  RelaxLoop(s.gen, s.changed, s.iteration, people)
    ELSE [gen |-> gen, changed |-> changed, iteration |-> iteration]

\* the resolved (non-NaN) values of a map
KnownGens(gen) == {gen[id].v : id \in {k \in DOMAIN gen : ~IsNaN(gen[k])}}

\* PrimeGenValue without the search for the minimum: 0 when there is no
\* explicit anchor
PrimeGenValue_NoMinimum(gen, people, prime) ==
  IF PrimeKnown(people, prime) /\ ~IsNaN(MapGet(gen, prime))
    THEN gen[prime].v
    ELSE 0

\* PrimeGenValue with the explicit anchor ignored: always the minimum
PrimeGenValue_Minimum(gen, people, prime) ==
  LET known == {gen[id].v : id \in {k \in DOMAIN gen : ~IsNaN(gen[k])}}
  IN  IF known # {} THEN CHOOSE m \in known : \A g \in known : m <= g ELSE 0

\* primeGenValue of the final normalization
PrimeGenValue(gen, people, prime) ==
  IF PrimeKnown(people, prime) /\ ~IsNaN(MapGet(gen, prime))
    THEN gen[prime].v
    ELSE IF KnownGens(gen) # {}
           THEN CHOOSE m \in KnownGens(gen) : \A g \in KnownGens(gen) : m <= g
           ELSE 0

\* Normalize with the shift applied to the unknown values as well
Normalize_ShiftUnknown(gen, people, prime) ==
  LET primeGenValue == PrimeGenValue(gen, people, prime)
  IN  [id \in DOMAIN gen |->
         IF ~IsNaN(gen[id]) THEN Num(gen[id].v - primeGenValue)
         ELSE Num(0 - primeGenValue)]

\* Normalize without the default for unknown values
Normalize_KeepUnknown(gen, people, prime) ==
  LET primeGenValue == PrimeGenValue(gen, people, prime)
  IN  [id \in DOMAIN gen |->
         IF ~IsNaN(gen[id]) THEN Num(gen[id].v - primeGenValue) ELSE gen[id]]

\* normalizedGenerationMap
Normalize(gen, people, prime) ==
  LET primeGenValue == PrimeGenValue(gen, people, prime)
  IN  [id \in DOMAIN gen |->
         IF ~IsNaN(gen[id]) THEN Num(gen[id].v - primeGenValue) ELSE Num(0)]

\* calculateGenerations(allPeople, primePersonId) as a function of its input
calculateGenerations(people, prime) ==
  IF Len(people) = 0 THEN <<>>
  ELSE Normalize(RelaxLoop(SeedGenerations(people, prime), TRUE, 0, people).gen,
                 people, prime)

\* ------------------------------------------------------------------------
\* State
\* ------------------------------------------------------------------------
VARIABLES
  allPeople,               \* the Person[] argument
  primePersonId,           \* the primePersonId argument (Null for null)
  generationMap,           \* calculateGenerations: generationMap
  changed,                 \* calculateGenerations: changed
  iteration,               \* calculateGenerations: iteration
  normalizedGenerationMap, \* the map calculateGenerations returns
  nodes,                   \* buildGraphData: nodes
  links,                   \* buildGraphData: links
  marriageNodesCache,      \* buildGraphData: marriageNodesCache
  index,                   \* position of the second allPeople.forEach
  pc                       \* position in buildGraphData

vars == <<allPeople, primePersonId, generationMap, changed, iteration,
          normalizedGenerationMap, nodes, links, marriageNodesCache, index, pc>>

\* ------------------------------------------------------------------------
\* Inputs.  The people are the first n ids of IdList, in that order; an id
\* of IdList that is not among them is a dangling id.  A relation entry
\* <<i, t>> puts id t in a list of person i.
\* ------------------------------------------------------------------------
Person(id, parents, spouses, children) ==
  [id |-> id, parents |-> parents, spouses |-> spouses, children |-> children]

RelationEntries(n) == (1..n) \X Ids

RECURSIVE SubsetsUpTo(_, _)
SubsetsUpTo(S, k) ==
  IF k = 0 THEN {{}}
  ELSE LET prev == SubsetsUpTo(S, k - 1)
       IN  prev \cup {T \cup {x} : T \in prev, x \in S}

\* the ids of T as a list in ascending string order, or descending
RECURSIVE AscendingList(_)
AscendingList(T) ==
  IF T = {} THEN <<>>
  ELSE LET least == CHOOSE x \in T : \A y \in T \ {x} : StrLess(x, y)
       IN  <<least>> \o AscendingList(T \ {least})

Reverse(seq) == [i \in 1..Len(seq) |-> seq[Len(seq) + 1 - i]]

RelationList(entries, i, descending) ==
  LET asc == AscendingList({e[2] : e \in {f \in entries : f[1] = i}})
  IN  IF descending THEN Reverse(asc) ELSE asc

MakePeople(n, parentEntries, spouseEntries, childEntries, reversed) ==
  [i \in 1..n |->
     Person(IdList[i],
            RelationList(parentEntries, i, i \in reversed),
            RelationList(spouseEntries, i, i \in reversed),
            RelationList(childEntries, i, i \in reversed))]

\* the persons of which some list has two entries or more
MultiEntry(n, parentEntries, spouseEntries, childEntries) ==
  {i \in 1..n : \E E \in {parentEntries, spouseEntries, childEntries} :
                   Cardinality({f \in E : f[1] = i}) >= 2}

\* the relation entries a shape allows for n people: with "any" a list may
\* hold any id of Ids (the person's own id and dangling ids included), with
\* "others" only the ids of the other people
TargetEntries(n, targets) ==
  IF targets = "any" THEN RelationEntries(n)
  ELSE {e \in RelationEntries(n) :
          e[2] # IdList[e[1]] /\ e[2] \in {IdList[j] : j \in 1..n}}

\* The shapes of input the model draws.  For each: the largest number of
\* entries in all parents lists, all spouses lists and all children lists,
\* and in all lists together; the ids those lists may hold; and the
\* primePersonId arguments.
Shapes ==
  { \* a few relations of any kind, any id
    [parents |-> GeneralRelations, parentIds |-> "any",
     spouses |-> GeneralRelations, spouseIds |-> "any",
     children |-> GeneralRelations, childIds |-> "any",
     total |-> GeneralRelations, primes |-> {Null} \cup Ids],
    \* several marriages
    [parents |-> 1, parentIds |-> "others",
     spouses |-> Marriages, spouseIds |-> "others",
     children |-> 0, childIds |-> "others",
     total |-> Marriages + 1, primes |-> {Null} \cup Ids],
    \* families with two parents, dangling parents included
    [parents |-> FamilyParents, parentIds |-> "any",
     spouses |-> 0, spouseIds |-> "others",
     children |-> 1, childIds |-> "others",
     total |-> FamilyParents + 1, primes |-> {Null}],
    \* parents of different generations
    [parents |-> MixedRelations, parentIds |-> "others",
     spouses |-> 0, spouseIds |-> "others",
     children |-> MixedRelations, childIds |-> "others",
     total |-> 2 * MixedRelations, primes |-> {Null} \cup Ids] }

\* the last id of IdList is never a person: every input has a dangling id
PeopleCounts == 0..(Len(IdList) - 1)

\* people and prime are an input of one of the shapes
Input(people, prime) ==
  \E n \in PeopleCounts, sh \in Shapes :
    \E pe \in SubsetsUpTo(TargetEntries(n, sh.parentIds), sh.parents),
       se \in SubsetsUpTo(TargetEntries(n, sh.spouseIds), sh.spouses),
       ce \in SubsetsUpTo(TargetEntries(n, sh.childIds), sh.children) :
      /\ Cardinality(pe) + Cardinality(se) + Cardinality(ce) <= sh.total
      /\ \E rev \in SUBSET MultiEntry(n, pe, se, ce) :
           /\ people = MakePeople(n, pe, se, ce, rev)
           /\ prime \in sh.primes

\* ------------------------------------------------------------------------
\* buildGraphData: nodes and links
\* ------------------------------------------------------------------------
\* the FamilyTreeNode of a person (name, gender and family fields left out;
\* a FamilyTreeNode has no type field, the tag tells the two kinds of
\* GraphNode apart)
PersonNode(person, generations) ==
  [id |-> person.id, type |-> "person", parents |-> person.parents,
   spouses |-> person.spouses, generation |-> MapGet(generations, person.id)]

\* the first allPeople.forEach: one person node per person, in input order
PersonNodes(people, generations) ==
  [i \in 1..Len(people) |-> PersonNode(people[i], generations)]

Link(source, target, type) == [source |-> source, target |-> target, type |-> type]

\* [...parentIds].sort(): ascending by code unit, by insertion
RECURSIVE Insert(_, _)
Insert(sorted, x) ==
  IF sorted = <<>> THEN <<x>>
  ELSE IF StrLess(x, Head(sorted)) THEN <<x>> \o sorted
  ELSE <<Head(sorted)>> \o Insert(Tail(sorted), x)

RECURSIVE Sort(_)
Sort(ids) ==
  IF ids = <<>> THEN <<>>
  ELSE Insert(Sort(SubSeq(ids, 1, Len(ids) - 1)), ids[Len(ids)])

\* ids.join('-')
RECURSIVE Join(_)
Join(ids) ==
  IF ids = <<>> THEN <<>>
  ELSE IF Len(ids) = 1 THEN ids[1]
  ELSE ids[1] \o <<"-">> \o Join(Tail(ids))

\* `marriage-${sortedParentIds.join('-')}`
MarriageKey(sortedParentIds) ==
  <<"m", "a", "r", "r", "i", "a", "g", "e", "-">> \o Join(sortedParentIds)

\* array.includes(x)
Includes(seq, x) == \E i \in 1..Len(seq) : seq[i] = x

\* allPeople.filter(p => p.parents includes both sorted parent ids), as the
\* positions in allPeople
ChildrenOfMarriage(people, sortedParentIds) ==
  {i \in 1..Len(people) :
     /\ Includes(people[i].parents, sortedParentIds[1])
     /\ Includes(people[i].parents, sortedParentIds[2])}

\* marriageGen after the look at the two parents
SpouseMarriageGen(generations, sortedParentIds) ==
  IF Len(sortedParentIds) > 0
    THEN LET p1Gen == MapGet(generations, sortedParentIds[1])
         IN  IF ~IsNaN(p1Gen) THEN p1Gen
             ELSE IF Len(sortedParentIds) > 1
                    THEN LET p2Gen == MapGet(generations, sortedParentIds[2])
                         IN  IF ~IsNaN(p2Gen) THEN p2Gen ELSE Undefined
                    ELSE Undefined
    ELSE Undefined

\* ChildMarriageGen that looks at the last child of the marriage
ChildMarriageGen_LastChild(people, generations, sortedParentIds, marriageGen) ==
  IF IsNaN(marriageGen)
    THEN LET childrenOfMarriage == ChildrenOfMarriage(people, sortedParentIds)
         IN  IF childrenOfMarriage # {}
               THEN LET last == CHOOSE i \in childrenOfMarriage :
                                  \A j \in childrenOfMarriage : i >= j
                        childGen == MapGet(generations, people[last].id)
                    IN  IF ~IsNaN(childGen) THEN Num(childGen.v - 1)
                        ELSE marriageGen
               ELSE marriageGen
    ELSE marriageGen

\* marriageGen after the look at the first child of the marriage
ChildMarriageGen(people, generations, sortedParentIds, marriageGen) ==
  IF IsNaN(marriageGen)
    THEN LET childrenOfMarriage == ChildrenOfMarriage(people, sortedParentIds)
         IN  IF childrenOfMarriage # {}
               THEN LET first == CHOOSE i \in childrenOfMarriage :
                                   \A j \in childrenOfMarriage : i <= j
                        childGen == MapGet(generations, people[first].id)
                    IN  IF ~IsNaN(childGen) THEN Num(childGen.v - 1)
                        ELSE marriageGen
               ELSE marriageGen
    ELSE marriageGen

\* the generation of a new marriage node
MarriageGen(people, generations, sortedParentIds) ==
  LET marriageGen ==
        ChildMarriageGen(people, generations, sortedParentIds,
                         SpouseMarriageGen(generations, sortedParentIds))
  IN  IF IsNaN(marriageGen) THEN Num(0) ELSE marriageGen

MarriageNode(people, generations, sortedParentIds) ==
  [id |-> MarriageKey(sortedParentIds), type |-> "marriage",
   parents |-> <<>>, spouses |-> sortedParentIds,
   generation |-> MarriageGen(people, generations, sortedParentIds)]

\* getOrCreateMarriageNode(parentIds) on a graph under construction
\* g = [nodes, links, cache]: the node, and the graph after the call
getOrCreateMarriageNode(g, people, generations, parentIds) ==
  LET sortedParentIds == Sort(parentIds)
      marriageKey == MarriageKey(sortedParentIds)
  IN  IF MapHas(g.cache, marriageKey)
        THEN [node |-> g.cache[marriageKey], graph |-> g]
        ELSE LET newMarriageNode == MarriageNode(people, generations, sortedParentIds)
             IN  [node |-> newMarriageNode,
                  graph |-> [g EXCEPT !.cache = MapSet(g.cache, marriageKey, newMarriageNode),
                                      !.nodes = Append(g.nodes, newMarriageNode)]]

\* SpouseLinks that keeps a pair apart by the links pushed so far instead
\* of by the order of the two ids
RECURSIVE SpouseLinks_FirstSeen(_, _, _, _)
SpouseLinks_FirstSeen(linkSeq, people, person, i) ==
  IF i > Len(person.spouses) THEN linkSeq
  ELSE LET spouseId == person.spouses[i]
           seen == \E k \in 1..Len(linkSeq) :
                     /\ linkSeq[k].type = "spouse-spouse"
                     /\ {linkSeq[k].source, linkSeq[k].target} = {person.id, spouseId}
       IN  SpouseLinks_FirstSeen(
             IF spouseId \in PeopleIds(people) /\ person.id # spouseId /\ ~seen
               THEN Append(linkSeq, Link(person.id, spouseId, "spouse-spouse"))
               ELSE linkSeq,
             people, person, i + 1)

\* person.spouses.forEach of the second loop, from position i
RECURSIVE SpouseLinks(_, _, _, _)
SpouseLinks(linkSeq, people, person, i) ==
  IF i > Len(person.spouses) THEN linkSeq
  ELSE LET spouseId == person.spouses[i]
       IN  SpouseLinks(
             IF spouseId \in PeopleIds(people) /\ StrLess(person.id, spouseId)
               THEN Append(linkSeq, Link(person.id, spouseId, "spouse-spouse"))
               ELSE linkSeq,
             people, person, i + 1)

\* ParentMarriageLinks that leaves out a link already in links
RECURSIVE ParentMarriageLinks_Once(_, _, _, _, _)
ParentMarriageLinks_Once(linkSeq, people, person, marriageId, i) ==
  IF i > Len(person.parents) THEN linkSeq
  ELSE LET parentId == person.parents[i]
           link == Link(parentId, marriageId, "parent-marriage")
       IN  ParentMarriageLinks_Once(
             IF parentId \in PeopleIds(people)
                  /\ \A k \in 1..Len(linkSeq) : linkSeq[k] # link
               THEN Append(linkSeq, link)
               ELSE linkSeq,
             people, person, marriageId, i + 1)

\* ParentMarriageLinks without the look-up of the parent in peopleMap
RECURSIVE ParentMarriageLinks_Unchecked(_, _, _, _, _)
ParentMarriageLinks_Unchecked(linkSeq, people, person, marriageId, i) ==
  IF i > Len(person.parents) THEN linkSeq
  ELSE ParentMarriageLinks_Unchecked(
         Append(linkSeq, Link(person.parents[i], marriageId, "parent-marriage")),
         people, person, marriageId, i + 1)

\* person.parents.forEach of a two-parent family, from position i
RECURSIVE ParentMarriageLinks(_, _, _, _, _)
ParentMarriageLinks(linkSeq, people, person, marriageId, i) ==
  IF i > Len(person.parents) THEN linkSeq
  ELSE LET parentId == person.parents[i]
       IN  ParentMarriageLinks(
             IF parentId \in PeopleIds(people)
               THEN Append(linkSeq, Link(parentId, marriageId, "parent-marriage"))
               ELSE linkSeq,
             people, person, marriageId, i + 1)

\* LinkPerson that makes the marriage of a two-parent family only when both
\* parents are people
LinkPerson_BothKnown(g, people, generations, person) ==
  LET g1 == [g EXCEPT !.links = SpouseLinks(g.links, people, person, 1)]
  IN  IF Len(person.parents) = 2
           /\ \A k \in 1..2 : person.parents[k] \in PeopleIds(people)
        THEN LET r == getOrCreateMarriageNode(g1, people, generations, person.parents)
                 l1 == Append(r.graph.links,
                              Link(r.node.id, person.id, "marriage-child"))
             IN  [r.graph EXCEPT
                    !.links = ParentMarriageLinks(l1, people, person, r.node.id, 1)]
        ELSE IF Len(person.parents) = 1 /\ person.parents[1] \in PeopleIds(people)
          THEN [g1 EXCEPT !.links =
                  Append(g1.links, Link(person.parents[1], person.id, "parent-child"))]
          ELSE g1

\* the body of the second allPeople.forEach for one person
LinkPerson(g, people, generations, person) ==
  LET g1 == [g EXCEPT !.links = SpouseLinks(g.links, people, person, 1)]
  IN  IF Len(person.parents) = 2
        THEN LET r == getOrCreateMarriageNode(g1, people, generations, person.parents)
                 l1 == Append(r.graph.links,
                              Link(r.node.id, person.id, "marriage-child"))
             IN  [r.graph EXCEPT
                    !.links = ParentMarriageLinks(l1, people, person, r.node.id, 1)]
        ELSE IF Len(person.parents) = 1 /\ person.parents[1] \in PeopleIds(people)
          THEN [g1 EXCEPT !.links =
                  Append(g1.links, Link(person.parents[1], person.id, "parent-child"))]
          ELSE g1

\* the second allPeople.forEach from position i
RECURSIVE LinkPeopleFrom(_, _, _, _)
LinkPeopleFrom(g, people, generations, i) ==
  IF i > Len(people) THEN g
  ELSE LinkPeopleFrom(LinkPerson(g, people, generations, people[i]),
                      people, generations, i + 1)

\* the nodes and links buildGraphData makes of the people and their generations
GraphOf(people, generations) ==
  LET g == LinkPeopleFrom([nodes |-> PersonNodes(people, generations),
                           links |-> <<>>, cache |-> <<>>],
                          people, generations, 1)
  IN  [nodes |-> g.nodes, links |-> g.links]

\* buildGraphData(allPeople, primePersonId) as a function of its input
buildGraphData(people, prime) ==
  GraphOf(people, calculateGenerations(people, prime))

\* ------------------------------------------------------------------------
\* buildGraphData(allPeople, primePersonId): the call of calculateGenerations
\* ------------------------------------------------------------------------
Init ==
  /\ Input(allPeople, primePersonId)
  /\ generationMap = IF Len(allPeople) = 0 THEN <<>>
                     ELSE SeedGenerations(allPeople, primePersonId)
  /\ changed = TRUE
  /\ iteration = 0
  /\ normalizedGenerationMap = <<>>
  /\ nodes = <<>>
  /\ links = <<>>
  /\ marriageNodesCache = <<>>
  /\ index = 1
  /\ pc = IF Len(allPeople) = 0 THEN "nodes" ELSE "relax"

\* Relax with a cap that lets one more pass through
Relax_OneMore ==
  /\ pc = "relax"
  /\ changed /\ iteration <= MAX_ITERATIONS
  /\ LET r == RelaxPass(generationMap, allPeople)
     IN  /\ generationMap' = r.gen
         /\ changed' = r.changed
  /\ iteration' = iteration + 1
  /\ UNCHANGED <<allPeople, primePersonId, normalizedGenerationMap, nodes,
                 links, marriageNodesCache, index, pc>>

\* one pass of the while loop
Relax ==
  /\ pc = "relax"
  /\ changed /\ iteration < MAX_ITERATIONS
  /\ LET r == RelaxPass(generationMap, allPeople)
     IN  /\ generationMap' = r.gen
         /\ changed' = r.changed
  /\ iteration' = iteration + 1
  /\ UNCHANGED <<allPeople, primePersonId, normalizedGenerationMap, nodes,
                 links, marriageNodesCache, index, pc>>

\* the loop exits; final normalization and return of calculateGenerations
NormalizeGenerations ==
  /\ pc = "relax"
  /\ ~(changed /\ iteration < MAX_ITERATIONS)
  /\ normalizedGenerationMap' = Normalize(generationMap, allPeople, primePersonId)
  /\ pc' = "nodes"
  /\ UNCHANGED <<allPeople, primePersonId, generationMap, changed, iteration,
                 nodes, links, marriageNodesCache, index>>

\* the first allPeople.forEach of buildGraphData
BuildNodes ==
  /\ pc = "nodes"
  /\ nodes' = PersonNodes(allPeople, normalizedGenerationMap)
  /\ index' = 1
  /\ pc' = "links"
  /\ UNCHANGED <<allPeople, primePersonId, generationMap, changed, iteration,
                 normalizedGenerationMap, links, marriageNodesCache>>

\* the second allPeople.forEach of buildGraphData, one person
BuildLinks ==
  /\ pc = "links"
  /\ index <= Len(allPeople)
  /\ LET g == LinkPerson([nodes |-> nodes, links |-> links,
                          cache |-> marriageNodesCache],
                         allPeople, normalizedGenerationMap, allPeople[index])
     IN  /\ nodes' = g.nodes
         /\ links' = g.links
         /\ marriageNodesCache' = g.cache
  /\ index' = index + 1
  /\ UNCHANGED <<allPeople, primePersonId, generationMap, changed, iteration,
                 normalizedGenerationMap, pc>>

\* return { nodes, links }
Return ==
  /\ pc = "links"
  /\ index > Len(allPeople)
  /\ pc' = "done"
  /\ UNCHANGED <<allPeople, primePersonId, generationMap, changed, iteration,
                 normalizedGenerationMap, nodes, links, marriageNodesCache, index>>

Next == Relax \/ NormalizeGenerations \/ BuildNodes \/ BuildLinks \/ Return

Spec == Init /\ [][Next]_vars

\* The calls with primePersonId absent or the second id (the id of a person
\* when there are two people or more, of nobody otherwise)
OrderInit == Init /\ primePersonId \in {Null, IdAB}
OrderSpec == OrderInit /\ [][Next]_vars

\* ------------------------------------------------------------------------
\* Properties
\* ------------------------------------------------------------------------
\* calculateGenerations has returned its map
Returned == pc \in {"nodes", "links", "done"}

\* the loop of calculateGenerations ended at the cap, its last pass changing
\* something
HitCap == iteration = MAX_ITERATIONS /\ changed

\* C1.  Coverage: for a non-empty input and any anchor argument, the map
\* calculateGenerations returns has an entry for the id of every person of
\* the input, and every such entry is a number (never NaN or undefined).
C1_Coverage ==
  (Returned /\ Len(allPeople) > 0) =>
    \A i \in 1..Len(allPeople) :
      /\ allPeople[i].id \in DOMAIN normalizedGenerationMap
      /\ normalizedGenerationMap[allPeople[i].id].kind = "number"

\* C1 happens: the anchor argument is an unknown id, and a person was still
\* unknown when the loop ended
C1_Witness ==
  /\ Returned
  /\ Len(allPeople) >= 2
  /\ primePersonId # Null /\ primePersonId \notin PeopleIds(allPeople)
  /\ \E id \in DOMAIN generationMap : generationMap[id] = NaN

\* C2.  Anchor pinning: when primePersonId is the id of a person of the
\* input, the returned generation of that person is exactly 0, whether or
\* not the loop converged.
C2_AnchorPinned ==
  (Returned /\ primePersonId # Null /\ primePersonId \in PeopleIds(allPeople)) =>
    normalizedGenerationMap[primePersonId] = Num(0)

\* C2 happens: the loop ended at the cap and left the explicit anchor at a
\* value other than 0, with somebody below it
C2_Witness ==
  /\ Returned
  /\ HitCap
  /\ primePersonId # Null /\ primePersonId \in PeopleIds(allPeople)
  /\ generationMap[primePersonId] # Num(0)
  /\ \E id \in DOMAIN generationMap :
       ~IsNaN(generationMap[id]) /\ generationMap[id].v < generationMap[primePersonId].v

\* a and b (positions in allPeople) each list the other in spouses
MutualSpouses(a, b) ==
  /\ Includes(allPeople[a].spouses, allPeople[b].id)
  /\ Includes(allPeople[b].spouses, allPeople[a].id)

\* C3.  Spouse equality: any two people of the input that each list the
\* other in spouses have equal returned generations.
C3_SpouseEquality ==
  Returned =>
    \A a, b \in 1..Len(allPeople) :
      MutualSpouses(a, b) =>
        normalizedGenerationMap[allPeople[a].id] = normalizedGenerationMap[allPeople[b].id]

\* C4.  Parent/child ordering: for every person c of the input and every id
\* p of c.parents that is the id of a person of the input, the returned
\* generation of p is strictly less than that of c.
C4_ParentBeforeChild ==
  Returned =>
    \A c \in 1..Len(allPeople) :
      \A k \in 1..Len(allPeople[c].parents) :
        LET p == allPeople[c].parents[k]
        IN  p \in PeopleIds(allPeople) =>
              normalizedGenerationMap[p].v < normalizedGenerationMap[allPeople[c].id].v

\* a bound on the number of steps the call still takes: the passes left
\* up to the cap, then the normalization, the nodes, a step for each person
\* left in the second loop, and the return
StepsLeft ==
  CASE pc = "relax" -> (200 - iteration) + Len(allPeople) + 3
    [] pc = "nodes" -> Len(allPeople) + 2
    [] pc = "links" -> (Len(allPeople) + 1 - index) + 1
    [] pc = "done"  -> 0

\* C5.  Termination without error: the loop of calculateGenerations makes at
\* most 200 passes; every step of the call brings its return nearer; and
\* the step that leaves the loop, after a pass that changed nothing or at the
\* cap, returns a map with an entry for every person.
C5_Termination ==
  /\ [](iteration <= 200 /\ StepsLeft >= 0)
  /\ [][/\ StepsLeft' < StepsLeft
        /\ (pc = "relax" /\ pc' # "relax") =>
             /\ ~changed \/ iteration = 200
             /\ pc' = "nodes"
             /\ DOMAIN normalizedGenerationMap' = PeopleIds(allPeople)]_vars

\* C5 happens: the call has returned after the loop was stopped by the cap
\* while its passes still changed values
C5_Witness ==
  /\ pc = "done"
  /\ iteration = 200 /\ changed
  /\ Len(allPeople) >= 2

\* the ids of the returned nodes, and the returned links
NodeIds == {nodes[i].id : i \in 1..Len(nodes)}
LinkSet == {links[i] : i \in 1..Len(links)}

\* C6.  Referential completeness: every link buildGraphData returns has a
\* source and a target that are ids of returned nodes (person or marriage
\* nodes), dangling spouse and parent ids included.
C6_LinksResolve ==
  pc = "done" =>
    \A l \in LinkSet : l.source \in NodeIds /\ l.target \in NodeIds

\* C6 happens: a two-parent family with one parent dangling and the other in
\* the input has its marriage node and its two links
C6_Witness ==
  /\ pc = "done"
  /\ \E c \in 1..Len(allPeople) :
       /\ Len(allPeople[c].parents) = 2
       /\ allPeople[c].parents[1] \notin PeopleIds(allPeople)
       /\ allPeople[c].parents[2] \in PeopleIds(allPeople)
       /\ \E l \in LinkSet : l.type = "parent-marriage" /\ l.source = allPeople[c].parents[2]
       /\ \E l \in LinkSet : l.type = "marriage-child" /\ l.target = allPeople[c].id

\* the people with exactly two parents, and the unordered pair of a
\* person's two parents
TwoParentPeople == {i \in 1..Len(allPeople) : Len(allPeople[i].parents) = 2}
ParentPair(i) == {allPeople[i].parents[1], allPeople[i].parents[2]}

\* the marriage nodes from which a marriage-child link goes to person i
MarriageOf(i) ==
  {l.source : l \in {k \in LinkSet : k.type = "marriage-child" /\ k.target = allPeople[i].id}}

\* C7.  Marriage dedup: the number of marriage nodes is the number of
\* distinct unordered parent pairs among the people with exactly two
\* parents, and two such people with the same two parents (in either order)
\* have their marriage-child links from the same marriage node.
C7_MarriageDedup ==
  pc = "done" =>
    /\ Cardinality({i \in 1..Len(nodes) : nodes[i].type = "marriage"})
         = Cardinality({ParentPair(i) : i \in TwoParentPeople})
    /\ \A i, j \in TwoParentPeople :
         ParentPair(i) = ParentPair(j) => MarriageOf(i) = MarriageOf(j)

\* the spouse-spouse links between persons a and b, in the positions of links
SpouseLinksBetween(a, b) ==
  {k \in 1..Len(links) :
     /\ links[k].type = "spouse-spouse"
     /\ {links[k].source, links[k].target} = {allPeople[a].id, allPeople[b].id}}

\* C8.  Spouse-link uniqueness: for two distinct people a and b of the
\* input of which one lists the other in spouses (or each lists the other),
\* the returned links hold exactly one spouse-spouse link between a and b.
C8_OneSpouseLink ==
  pc = "done" =>
    \A a, b \in 1..Len(allPeople) :
      (a # b /\ (Includes(allPeople[a].spouses, allPeople[b].id)
                 \/ Includes(allPeople[b].spouses, allPeople[a].id)))
        => Cardinality(SpouseLinksBetween(a, b)) = 1

\* the orders of n things, and people in another order
Orders(n) == {f \in [1..n -> 1..n] : \A i, j \in 1..n : f[i] = f[j] => i = j}
Reordered(people, f) == [i \in 1..Len(people) |-> people[f[i]]]
SetOf(seq) == {seq[i] : i \in 1..Len(seq)}

\* C9 as claimed.  Input-order independence: for any order of the person
\* list, with the same primePersonId, calculateGenerations returns the same
\* map and buildGraphData (which makes its graph of that map) the same set
\* of nodes, generations included, and the same set of links.
C9_OrderIndependent ==
  pc = "done" =>
    \A f \in Orders(Len(allPeople)) :
      LET other == Reordered(allPeople, f)
          generations == calculateGenerations(other, primePersonId)
          graph == GraphOf(other, generations)
      IN  /\ generations = normalizedGenerationMap
          /\ SetOf(graph.nodes) = SetOf(nodes)
          /\ SetOf(graph.links) = LinkSet

\* C9 as amended.  For any order of the person list, with the same
\* primePersonId, calculateGenerations returns a map with the same keys and
\* buildGraphData returns nodes with the same ids and types and the same
\* set of links; the generations are left out.
C9_OrderIndependentShape ==
  pc = "done" =>
    \A f \in Orders(Len(allPeople)) :
      LET other == Reordered(allPeople, f)
          generations == calculateGenerations(other, primePersonId)
          graph == GraphOf(other, generations)
      IN  /\ DOMAIN generations = DOMAIN normalizedGenerationMap
          /\ {<<n.id, n.type>> : n \in SetOf(graph.nodes)}
               = {<<n.id, n.type>> : n \in SetOf(nodes)}
          /\ SetOf(graph.links) = LinkSet

\* C9 happens: a call has returned for three people, with a spouse-spouse
\* link and a marriage node, and in another order of the same people the
\* generations come out different
C9_Witness ==
  /\ pc = "done"
  /\ Len(allPeople) = 3
  /\ \E l \in LinkSet : l.type = "marriage-child"
  /\ \E l \in LinkSet : l.type = "parent-marriage"
  /\ \E f \in Orders(3) :
       calculateGenerations(Reordered(allPeople, f), primePersonId)
         # normalizedGenerationMap

\* the anchor the claim describes when primePersonId names nobody: the first
\* person in input order with no parents and some children, or else the
\* first person
NoExplicitAnchor ==
  Len(allPeople) > 0 /\ (primePersonId = Null \/ primePersonId \notin PeopleIds(allPeople))
IsRoot(i) == Len(allPeople[i].parents) = 0 /\ Len(allPeople[i].children) > 0
AutoAnchor ==
  IF \E i \in 1..Len(allPeople) : IsRoot(i)
    THEN allPeople[CHOOSE i \in 1..Len(allPeople) :
                     IsRoot(i) /\ \A j \in 1..(i - 1) : ~IsRoot(j)].id
    ELSE allPeople[1].id

\* the smallest resolved value of the relaxed map
MinResolved ==
  CHOOSE m \in KnownGens(generationMap) : \A g \in KnownGens(generationMap) : m <= g

\* C10 as claimed.  Without an explicit anchor the auto-selected anchor has
\* generation exactly 0 in the returned map.
C10_AutoAnchorZero ==
  (Returned /\ NoExplicitAnchor) => normalizedGenerationMap[AutoAnchor] = Num(0)

\* C10 as amended.  Without an explicit anchor the auto-selected anchor (the
\* first person with no parents and some children, or else the first
\* person) is the one person seeded with 0; in the returned map its
\* generation is its relaxed value less the smallest relaxed value of all
\* people: never negative, and 0 only when nobody resolved below it.
C10_AutoAnchorAboveMinimum ==
  NoExplicitAnchor =>
    /\ (pc = "relax" /\ iteration = 0) =>
         \A id \in DOMAIN generationMap :
           generationMap[id] = IF id = AutoAnchor THEN Num(0) ELSE NaN
    /\ Returned =>
         /\ ~IsNaN(generationMap[AutoAnchor])
         /\ normalizedGenerationMap[AutoAnchor]
              = Num(generationMap[AutoAnchor].v - MinResolved)
         /\ normalizedGenerationMap[AutoAnchor].v >= 0

\* C10 happens: the anchor was selected as a root that is not the first
\* person, and it is returned above 0 because somebody resolved below it
C10_Witness ==
  /\ Returned /\ NoExplicitAnchor
  /\ AutoAnchor # allPeople[1].id
  /\ normalizedGenerationMap[AutoAnchor].v > 0

\* the anchor of the call: the explicit one, or the auto-selected one
Anchor == IF NoExplicitAnchor THEN AutoAnchor ELSE primePersonId

\* persons i and j are related: one lists the other as spouse, parent or child
Related(i, j) ==
  \E x \in {i, j} : \E y \in {i, j} \ {x} :
    \/ Includes(allPeople[x].spouses, allPeople[y].id)
    \/ Includes(allPeople[x].parents, allPeople[y].id)
    \/ Includes(allPeople[x].children, allPeople[y].id)

\* the persons a chain of relations connects to the persons of S
RECURSIVE ConnectedTo(_)
ConnectedTo(S) ==
  LET more == {j \in 1..Len(allPeople) : \E i \in S : i # j /\ Related(i, j)}
  IN  IF more \subseteq S THEN S ELSE ConnectedTo(S \cup more)

Disconnected ==
  (1..Len(allPeople))
    \ ConnectedTo({i \in 1..Len(allPeople) : allPeople[i].id = Anchor})

\* C11.  Disconnected default: in the returned map a person that no chain of
\* spouse, parent or child relations connects to the anchor has generation
\* 0, and so has every person whose value was still unknown when the
\* relaxation ended, whatever the shift applied to the resolved values.
C11_DisconnectedDefault ==
  (pc = "done" /\ Len(allPeople) > 0) =>
    /\ \A i \in Disconnected : normalizedGenerationMap[allPeople[i].id] = Num(0)
    /\ \A id \in DOMAIN generationMap :
         IsNaN(generationMap[id]) => normalizedGenerationMap[id] = Num(0)

\* C11 happens: a call has returned with a disconnected person while the
\* resolved values were shifted by something other than 0
C11_Witness ==
  /\ pc = "done" /\ Len(allPeople) > 0
  /\ Disconnected # {}
  /\ PrimeGenValue(generationMap, allPeople, primePersonId) # 0

\* the persons that have a parent with a known value in generationMap
WithKnownParents ==
  {i \in 1..Len(allPeople) :
     KnownParentsCount(generationMap, allPeople[i].parents, 1) > 0}

\* the mean of person i's known parent values is half-way between two integers
MeanIsTie(i) ==
  LET sum == ParentGenSum(generationMap, allPeople[i].parents, 1)
      count == KnownParentsCount(generationMap, allPeople[i].parents, 1)
  IN  (2 * sum) % (2 * count) = count

\* the mean rounded with a tie going away from zero, as an integer r: r is
\* within a half of sum / count, and at a tie it is the one farther from 0
IsRoundAwayFromZero(r, sum, count) ==
  /\ 2 * count * r - count <= 2 * sum
  /\ 2 * sum <= 2 * count * r + count
  /\ (2 * sum = 2 * count * r - count) => sum > 0
  /\ (2 * sum = 2 * count * r + count) => sum < 0

\* C12 as claimed.  Rule B rounding: whenever a person has known parent
\* values whose mean is half-way between two integers, the child value the
\* rule computes is the mean rounded to the nearest integer, a tie going
\* away from zero, plus 1, for negative and non-negative means alike.
C12_RoundAwayFromZero ==
  pc = "relax" =>
    \A i \in WithKnownParents :
      MeanIsTie(i) =>
        IsRoundAwayFromZero(
          ImpliedChildGen(generationMap, allPeople[i].parents) - 1,
          ParentGenSum(generationMap, allPeople[i].parents, 1),
          KnownParentsCount(generationMap, allPeople[i].parents, 1))

\* C12 as amended.  Whenever a person has known parent values, the child
\* value the rule computes is the mean rounded to the nearest integer plus
\* 1, and when the mean is half-way between two integers it is rounded to
\* the larger one (Math.round), for negative and non-negative means alike:
\* parents at -1 and -2 give 0, parents at 0 and 1 give 2.
C12_RoundHalfUp ==
  pc = "relax" =>
    \A i \in WithKnownParents :
      LET sum == ParentGenSum(generationMap, allPeople[i].parents, 1)
          count == KnownParentsCount(generationMap, allPeople[i].parents, 1)
          r == ImpliedChildGen(generationMap, allPeople[i].parents) - 1
      IN  /\ 2 * count * r - count <= 2 * sum
          /\ 2 * sum < 2 * count * r + count
          /\ MeanIsTie(i) => 2 * count * r = 2 * sum + count

\* C12 happens: during the relaxation a person has known parents with a
\* negative mean half-way between two integers
C12_Witness ==
  /\ pc = "relax"
  /\ \E i \in WithKnownParents :
       MeanIsTie(i) /\ ParentGenSum(generationMap, allPeople[i].parents, 1) < 0

\* the marriage nodes of a node collection
MarriageNodesOf(nodeSeq) == {n \in SetOf(nodeSeq) : n.type = "marriage"}

\* the persons whose parents are exactly the two ids, and those whose
\* parents include the two ids
ChildrenWithExactly(pair) ==
  {i \in 1..Len(allPeople) : SetOf(allPeople[i].parents) = SetOf(pair)}
ChildrenIncluding(pair) ==
  {i \in 1..Len(allPeople) : SetOf(pair) \subseteq SetOf(allPeople[i].parents)}

\* the ids and generations of the marriage nodes of two dangling parents
DanglingMarriageGens(nodeSeq) ==
  {<<n.id, n.generation>> :
     n \in {m \in MarriageNodesOf(nodeSeq) :
              \A k \in 1..Len(m.spouses) :
                m.spouses[k] \notin DOMAIN normalizedGenerationMap}}

\* C13 as claimed.  Marriage-node generation: each marriage node has the
\* map value of its smaller parent id if the map has it, otherwise that of
\* the other parent id if the map has it, otherwise the generation minus 1
\* of a person with exactly these two parents, otherwise 0; and with the
\* same map, the generation of a marriage node of two dangling parents does
\* not depend on the order of the people.
C13_MarriageGeneration ==
  pc = "done" =>
    /\ \A n \in MarriageNodesOf(nodes) :
         LET p1 == n.spouses[1]
             p2 == n.spouses[2]
         IN  IF p1 \in DOMAIN normalizedGenerationMap
               THEN n.generation = normalizedGenerationMap[p1]
             ELSE IF p2 \in DOMAIN normalizedGenerationMap
               THEN n.generation = normalizedGenerationMap[p2]
             ELSE IF ChildrenWithExactly(n.spouses) # {}
               THEN \E i \in ChildrenWithExactly(n.spouses) :
                      n.generation
                        = Num(normalizedGenerationMap[allPeople[i].id].v - 1)
             ELSE n.generation = Num(0)
    /\ \A f \in Orders(Len(allPeople)) :
         DanglingMarriageGens(GraphOf(Reordered(allPeople, f),
                                      normalizedGenerationMap).nodes)
           = DanglingMarriageGens(nodes)

\* C13 as amended.  Each marriage node has the map value of its smaller
\* parent id if the map has it, otherwise that of the other parent id if the
\* map has it, otherwise the generation minus 1 of the first person in input
\* order whose parents include both ids; such a person exists whenever the
\* node does, so the default 0 is never used.
C13_FirstChildDecides ==
  pc = "done" =>
    \A n \in MarriageNodesOf(nodes) :
      LET p1 == n.spouses[1]
          p2 == n.spouses[2]
      IN  /\ Len(n.spouses) = 2 /\ ~StrLess(p2, p1)
          /\ IF p1 \in DOMAIN normalizedGenerationMap
               THEN n.generation = normalizedGenerationMap[p1]
             ELSE IF p2 \in DOMAIN normalizedGenerationMap
               THEN n.generation = normalizedGenerationMap[p2]
             ELSE \E i \in ChildrenIncluding(n.spouses) :
                    /\ \A j \in ChildrenIncluding(n.spouses) : i <= j
                    /\ n.generation
                         = Num(normalizedGenerationMap[allPeople[i].id].v - 1)

\* C13 happens: a marriage node of two dangling parents, with two children
\* of different generations
C13_Witness ==
  /\ pc = "done"
  /\ \E n \in MarriageNodesOf(nodes) :
       /\ n.spouses[1] \notin DOMAIN normalizedGenerationMap
       /\ n.spouses[2] \notin DOMAIN normalizedGenerationMap
       /\ \E i, j \in ChildrenIncluding(n.spouses) :
            normalizedGenerationMap[allPeople[i].id]
              # normalizedGenerationMap[allPeople[j].id]

\* the links a step adds to links that are not spouse-spouse links, as a
\* sequence, and the number of them equal to l
ParentSideLinks(before, after) ==
  SelectSeq(SubSeq(after, Len(before) + 1, Len(after)),
            LAMBDA l : l.type # "spouse-spouse")
Occurrences(seq, l) == Cardinality({k \in 1..Len(seq) : seq[k] = l})

\* C14.  Dangling parents: the step of the second loop for a person with
\* exactly two parent ids leaves the marriage node of their key in nodes,
\* adds no other node, and emits one marriage-child link from that node to
\* the person and one parent-marriage link for each of the two ids that is
\* the id of a person, and nothing else on the parent side; for one parent
\* id that is dangling, and for no or three or more parent ids, it emits no
\* parent-side link and adds no node.
C14_DanglingParents ==
  [][(pc = "links" /\ index <= Len(allPeople)) =>
       LET person == allPeople[index]
           emitted == ParentSideLinks(links, links')
           known == {p \in SetOf(person.parents) : p \in PeopleIds(allPeople)}
       IN  IF Len(person.parents) = 2
             THEN \E m \in MarriageNodesOf(nodes') :
                    /\ m.id = MarriageKey(Sort(person.parents))
                    /\ SetOf(nodes') \ SetOf(nodes) \subseteq {m}
                    /\ Occurrences(emitted, Link(m.id, person.id, "marriage-child")) = 1
                    /\ \A p \in known :
                         Occurrences(emitted, Link(p, m.id, "parent-marriage")) = 1
                    /\ Len(emitted) = 1 + Cardinality(known)
           ELSE IF Len(person.parents) = 1 /\ known # {}
             THEN nodes' = nodes
           ELSE emitted = <<>> /\ nodes' = nodes]_vars

\* C14 happens: the second loop has passed a person with two parent ids of
\* which one is dangling, and a person with a single dangling parent id or
\* with three parent ids or more
C14_Witness ==
  /\ pc \in {"links", "done"}
  /\ \E i \in 1..(index - 1) :
       /\ Len(allPeople[i].parents) = 2
       /\ \E k \in 1..2 : allPeople[i].parents[k] \in PeopleIds(allPeople)
       /\ \E k \in 1..2 : allPeople[i].parents[k] \notin PeopleIds(allPeople)
  /\ \E i \in 1..(index - 1) :
       \/ Len(allPeople[i].parents) >= 3
       \/ /\ Len(allPeople[i].parents) = 1
          /\ allPeople[i].parents[1] \notin PeopleIds(allPeople)

\* the loop was left after a pass that changed nothing
EarlyExit == pc = "done" /\ Len(allPeople) > 0 /\ ~changed

\* the ids of a list that have a known value in generationMap
KnownIn(ids) == {id \in SetOf(ids) : ~IsNaN(MapGet(generationMap, id))}

\* C15.  Fixed point on early exit: when the loop is left after a pass that
\* changed nothing, every person with a known value has the value of each
\* listed spouse with a known value, at most Math.round(mean of the known
\* parent values) + 1, and at least the value minus 1 of each listed child
\* with a known value; and no person with a known-valued spouse, parent or
\* listed child is left unknown.
C15_FixedPoint ==
  EarlyExit =>
    \A i \in 1..Len(allPeople) :
      LET P == allPeople[i]
          value == generationMap[P.id]
      IN  IF IsNaN(value)
            THEN KnownIn(P.spouses) \cup KnownIn(P.parents) \cup KnownIn(P.children) = {}
            ELSE /\ \A sp \in KnownIn(P.spouses) : generationMap[sp] = value
                 /\ KnownIn(P.parents) # {} =>
                      value.v <= ImpliedChildGen(generationMap, P.parents)
                 /\ \A c \in KnownIn(P.children) :
                      value.v >= generationMap[c].v - 1

\* C15 happens: the loop was left before the cap after a pass that changed
\* nothing, with a person that has a known-valued spouse and a known-valued
\* parent
C15_Witness ==
  /\ EarlyExit /\ iteration > 1 /\ iteration < MAX_ITERATIONS
  /\ \E i \in 1..Len(allPeople) :
       /\ KnownIn(allPeople[i].spouses) \ {allPeople[i].id} # {}
       /\ KnownIn(allPeople[i].parents) # {}

\* the persons with two parent ids, p among them, whose marriage node is m
ChildrenLinking(p, m) ==
  {i \in 1..Len(allPeople) :
     /\ Len(allPeople[i].parents) = 2
     /\ p \in SetOf(allPeople[i].parents)
     /\ MarriageKey(Sort(allPeople[i].parents)) = m}

\* C16 as claimed.  No duplicate links: the returned links hold no two links
\* with the same source, target and type; a parent of several siblings has
\* one parent-marriage link to their marriage node.
C16_NoDuplicateLinks ==
  pc = "done" => \A l \in LinkSet : Occurrences(links, l) = 1

\* C16 as amended.  The returned links hold no two spouse-spouse,
\* marriage-child or parent-child links with the same source and target; a
\* parent-marriage link from a parent to a marriage node occurs once for
\* each person with two parent ids, that parent among them, whose marriage
\* node it is: a parent of k siblings has k links to their marriage node.
C16_OneLinkPerChild ==
  pc = "done" =>
    \A l \in LinkSet :
      Occurrences(links, l) =
        IF l.type = "parent-marriage"
          THEN Cardinality(ChildrenLinking(l.source, l.target))
          ELSE 1

\* C16 happens: a parent of two siblings with the same two parents, and a
\* marriage-child link
C16_Witness ==
  /\ pc = "done"
  /\ \E l \in LinkSet :
       l.type = "parent-marriage" /\ Cardinality(ChildrenLinking(l.source, l.target)) = 2
  /\ \E l \in LinkSet : l.type = "marriage-child"

\* C17.  Zero-based generations without an explicit anchor: when
\* primePersonId is null or not the id of a person (and there are people),
\* every generation of the returned map is a number greater than or equal
\* to 0, and some person has generation 0.
C17_ZeroBased ==
  (pc = "done" /\ NoExplicitAnchor) =>
    /\ \A id \in DOMAIN normalizedGenerationMap :
         /\ ~IsNaN(normalizedGenerationMap[id])
         /\ normalizedGenerationMap[id].v >= 0
    /\ \E i \in 1..Len(allPeople) :
         normalizedGenerationMap[allPeople[i].id] = Num(0)

\* C17 happens: a call without an explicit anchor has returned, and the
\* relaxation had resolved some person below 0 and left another unknown
C17_Witness ==
  /\ pc = "done" /\ NoExplicitAnchor
  /\ MinResolved < 0
  /\ \E id \in DOMAIN generationMap : IsNaN(generationMap[id])

====
